---- MODULE Spec2Model ----
(***************************************************************************)
(* One relay session of the AI content route: GET -> callOpenAiApiStream   *)
(* -> fetchWithRetry -> fetchWithTimeout -> fetch, followed by the SSE     *)
(* read loop of the ReadableStream that GET hands to its client.           *)
(*                                                                         *)
(* Strings are sequences of one-character strings.  A JSON payload is      *)
(* written in a short form: "{" c1 .. cn "}" stands for                    *)
(*   {"choices":[{"delta":{"content":"c1..cn"}}]}                          *)
(* and "{}" for a JSON object without choices; everything else is text     *)
(* JSON.parse rejects.  "#" stands for the backquote of a code fence.  A   *)
(* message is a pair <<kind, number>>.                                     *)
(***************************************************************************)
EXTENDS Integers, Sequences, FiniteSets, TLC

VARIABLES
    apiKey,        \* module constant apiKey of openai.ts: "unset", "empty", "set"
    pc,            \* position of the session
    retries,       \* parameter `retries` of the running fetchWithRetry frame
    attempts,      \* number of fetch() calls made so far
    inflight,      \* number of fetch() requests not yet settled
    timer,         \* timeout timer of the running fetchWithTimeout call
    delays,        \* number of delay(RETRY_DELAY) calls made so far
    sent,          \* the request passed to each fetch() call, in order
    lastError,     \* OpenAIError of the attempt that ended last, if it failed
    hist,          \* what upstream answered so far (history)
    genResponse,   \* Response returned by callOpenAiApiStream
    body,          \* upstream body bytes not yet read
    upstream,      \* all bytes of the upstream body
    htmlContent,   \* accumulator of the read loop
    emitted,       \* chunks enqueued on the controller, in order
    controller,    \* ReadableStream controller: "none", "open", "closed", "errored"
    routeResponse, \* NextResponse returned by GET
    sawDone,       \* the read loop has met a [DONE] line (history)
    elapsed,       \* ms since the first attempt started, while fetchWithRetry runs
    abandoned      \* the client has gone away

vars == <<apiKey, pc, retries, attempts, inflight, timer, delays, sent, lastError,
          hist, genResponse, body, upstream, htmlContent, emitted, controller,
          routeResponse, sawDone, elapsed, abandoned>>

-----------------------------------------------------------------------------
(* Bounds and program constants *)

MaxLines == 2

\* ms a request takes that settles before the timer fires
FetchLatency == 200

REQUEST_TIMEOUT == 30000
MAX_RETRIES == 3
RETRY_DELAY == 1000

\* HTTP statuses upstream may answer with
Statuses == {200, 401, 408, 429, 500, 503}

\* shapes of the body of a non-success response
\*   "typed"       {"error": {"message": m, "type": t}}
\*   "untyped"     {"error": {"message": m}}
\*   "bare"        {"error": {}}
\*   "noerror"     a JSON object without an error field
\*   "unparseable" not JSON
ErrorBodies == {"typed", "untyped", "bare", "noerror", "unparseable"}

-----------------------------------------------------------------------------
(* openai.ts: errors, classification, responses *)

OpenAIError(message, statusCode, errorType, retryable) ==
    [message |-> message, statusCode |-> statusCode,
     errorType |-> errorType, retryable |-> retryable]

NoError == OpenAIError(<<"none", 0>>, -1, "none", FALSE)

\* response.ok of the fetch standard
Ok(status) == status >= 200 /\ status <= 299

\* the rule of lines 144-146
StatusRule(status) == status >= 500 \/ status = 429 \/ status = 408

\* mutant: errorType starts as 'api_error' instead of 'unknown'
parseApiErrorDefaultApiError(status, errBody) ==
    OpenAIError(
        IF errBody \in {"typed", "untyped"} THEN <<"upstream", status>> ELSE <<"HTTP", status>>,
        status,
        IF errBody = "typed" THEN "upstream_type" ELSE "api_error",
        errBody \in {"typed", "untyped", "bare"} /\ StatusRule(status))

parseApiError(status, errBody) ==
    LET default == <<"HTTP", status>>
        hasError == errBody \in {"typed", "untyped", "bare"}
    IN  OpenAIError(
            IF errBody \in {"typed", "untyped"} THEN <<"upstream", status>> ELSE default,
            status,
            IF errBody = "typed" THEN "upstream_type"
            ELSE IF hasError THEN "api_error" ELSE "unknown",
            hasError /\ StatusRule(status))

TimeoutError == OpenAIError(<<"timeout", 0>>, 408, "timeout", TRUE)

NetworkError(r) == OpenAIError(<<"network", 0>>, 0, "network_error", r > 0)

\* mutant: only an undefined key is refused
validateApiKeyDefined(key) == key # "unset"

validateApiKey(key) == key = "set"

\* the request options built once by callOpenAiApiStream
RequestOptions == [method |-> "POST", url |-> "chat/completions", stream |-> TRUE]

\* generateErrorHtml of openai.ts
generateErrorHtml(errorMessage, statusCode) ==
    [errorMessage |-> errorMessage, statusCode |-> statusCode]

NoDoc == generateErrorHtml(<<"none", 0>>, 0)

Response(status, doc) == [status |-> status, doc |-> doc]

NoResponse == Response(0, NoDoc)

\* mutant: the error's message and status are not copied
ErrorResponseUnknown(error) == Response(500, generateErrorHtml(<<"unknown", 0>>, 500))

\* the catch block of callOpenAiApiStream
ErrorResponse(error) ==
    LET statusCode == IF error.statusCode # 0 THEN error.statusCode ELSE 500
    IN  Response(statusCode, generateErrorHtml(error.message, statusCode))

MissingKeyResponse == Response(500, generateErrorHtml(<<"nokey", 0>>, 500))

(* the route: GET *)

NoRouteResponse == [kind |-> "none", status |-> 0, details |-> NoResponse]

\* `throw new Error(...)` on a non-ok response, and the catch block
RouteFallback(resp) == [kind |-> "fallback", status |-> 500, details |-> resp]

RouteStream == [kind |-> "stream", status |-> 200, details |-> NoResponse]

-----------------------------------------------------------------------------
(* the SSE read loop of GET *)

NL == "\n"

DataPrefix == <<"d", "a", "t", "a", ":", " ">>

DoneData == <<"[", "D", "O", "N", "E", "]">>

\* the texts a delta may carry: a plain text (the code never compares texts,
\* so one letter stands for any of them) and a code fence
Contents == {<<"A">>, <<"#", "#", "#">>}

ContentChars == {"A", "B", "#", "h", "t", "m", "l", " "}

DeltaLine(content) == DataPrefix \o <<"{">> \o content \o <<"}">>

\* the lines upstream may send: a delta, the sentinel, a payload that is not
\* JSON, and the blank line that ends an event
Lines == {DeltaLine(c) : c \in Contents}
            \cup {DataPrefix \o DoneData, DataPrefix \o <<"x">>, <<>>}

RECURSIVE Join(_)
Join(ls) == IF ls = <<>> THEN <<>> ELSE Head(ls) \o <<NL>> \o Join(Tail(ls))

Streams == {Join(ls) : ls \in UNION {[1..n -> Lines] : n \in 0..MaxLines}}

\* String.prototype.slice(n) and startsWith
Slice(s, n) == SubSeq(s, n + 1, Len(s))

StartsWith(s, prefix) == Len(s) >= Len(prefix) /\ SubSeq(s, 1, Len(prefix)) = prefix

\* chunk.split(NL)
RECURSIVE Split(_, _)
Split(s, cur) ==
    IF s = <<>> THEN <<cur>>
    ELSE IF Head(s) = NL THEN <<cur>> \o Split(Tail(s), <<>>)
    ELSE Split(Tail(s), Append(cur, Head(s)))

\* JSON.parse(data) followed by parsed.choices?.[0]?.delta?.content
JSONParse(data) ==
    IF /\ Len(data) >= 2
       /\ data[1] = "{"
       /\ data[Len(data)] = "}"
       /\ \A i \in 2..(Len(data) - 1) : data[i] \in ContentChars
    THEN [ok |-> TRUE, content |-> SubSeq(data, 2, Len(data) - 1)]
    ELSE [ok |-> FALSE, content |-> <<>>]

\* the content one line makes the loop append and enqueue: lines 60-78
LineContent(line) ==
    IF ~StartsWith(line, DataPrefix) THEN <<>>
    ELSE LET data == Slice(line, 6)
         IN  IF data = DoneData THEN <<>>
             ELSE IF JSONParse(data).ok THEN JSONParse(data).content ELSE <<>>

\* mutant: a payload JSON.parse rejects ends the for loop
RECURSIVE EnqueuedUntilBad(_)
EnqueuedUntilBad(lines) ==
    IF lines = <<>> THEN <<>>
    ELSE IF /\ StartsWith(Head(lines), DataPrefix)
            /\ Slice(Head(lines), 6) # DoneData
            /\ ~JSONParse(Slice(Head(lines), 6)).ok
         THEN <<>>
         ELSE (IF LineContent(Head(lines)) # <<>> THEN <<LineContent(Head(lines))>>
               ELSE <<>>) \o EnqueuedUntilBad(Tail(lines))

\* the chunks the for loop enqueues for the lines of one chunk, in order
RECURSIVE Enqueued(_)
Enqueued(lines) ==
    IF lines = <<>> THEN <<>>
    ELSE (IF LineContent(Head(lines)) # <<>> THEN <<LineContent(Head(lines))>> ELSE <<>>)
         \o Enqueued(Tail(lines))

RECURSIVE Concat(_)
Concat(ss) == IF ss = <<>> THEN <<>> ELSE Head(ss) \o Concat(Tail(ss))

\* lines 56-79 for one chunk
Decode(chunk) == Enqueued(Split(chunk, <<>>))

Whitespace == {" ", NL}

RECURSIVE TrimStart(_)
TrimStart(s) == IF s # <<>> /\ Head(s) \in Whitespace THEN TrimStart(Tail(s)) ELSE s

RECURSIVE TrimEnd(_)
TrimEnd(s) ==
    IF s # <<>> /\ s[Len(s)] \in Whitespace THEN TrimEnd(SubSeq(s, 1, Len(s) - 1)) ELSE s

FenceOpen == <<"#", "#", "#", "h", "t", "m", "l">>

FenceClose == <<"#", "#", "#">>

\* content.replace(/^FenceOpen\s*|FenceClose$/g, '').trim(); null is the empty text
extractContentFromStreamResponse(content) ==
    LET opened == IF StartsWith(content, FenceOpen)
                  THEN TrimStart(Slice(content, Len(FenceOpen))) ELSE content
        closed == IF Len(opened) >= 3 /\ Slice(opened, Len(opened) - 3) = FenceClose
                  THEN SubSeq(opened, 1, Len(opened) - 3) ELSE opened
    IN  TrimEnd(TrimStart(closed))

\* mutant: the cleaned text is sent again from its start
RemainingWhole(html) == extractContentFromStreamResponse(html)

\* mutant: the slice is taken of the raw text at the cleaned length
RemainingOfRaw(html) == Slice(html, Len(extractContentFromStreamResponse(html)))

\* what the done branch enqueues: lines 43-50
Remaining(html) == Slice(extractContentFromStreamResponse(html), Len(html))

-----------------------------------------------------------------------------
Init ==
    /\ apiKey \in {"unset", "empty", "set"}
    /\ pc = "idle"
    /\ retries = MAX_RETRIES
    /\ attempts = 0
    /\ inflight = 0
    /\ timer = "none"
    /\ delays = 0
    /\ sent = <<>>
    /\ lastError = NoError
    /\ hist = [all500 |-> TRUE, retryableStatusOnly |-> TRUE, nonRetryableAt |-> 0,
               errBody |-> "none"]
    /\ genResponse = NoResponse
    /\ body = <<>>
    /\ upstream = <<>>
    /\ htmlContent = <<>>
    /\ emitted = <<>>
    /\ controller = "none"
    /\ routeResponse = NoRouteResponse
    /\ sawDone = FALSE
    /\ elapsed = 0
    /\ abandoned = FALSE

streamVars == <<body, upstream, htmlContent, emitted, controller, sawDone>>

\* fetchWithTimeout: arm the timer and call fetch
StartAttempt(r) ==
    /\ retries' = r
    /\ attempts' = attempts + 1
    /\ inflight' = inflight + 1
    /\ timer' = "armed"
    /\ sent' = Append(sent, RequestOptions)
    /\ pc' = "awaitFetch"

\* GET calls callOpenAiApiStream
Generate ==
    /\ pc = "idle"
    /\ IF ~validateApiKey(apiKey)
       THEN /\ genResponse' = MissingKeyResponse
            /\ routeResponse' = RouteFallback(MissingKeyResponse)
            /\ pc' = "done"
            /\ UNCHANGED <<retries, attempts, inflight, timer, sent>>
       ELSE /\ StartAttempt(MAX_RETRIES)
            /\ UNCHANGED <<genResponse, routeResponse>>
    /\ UNCHANGED <<apiKey, delays, lastError, hist, streamVars, elapsed, abandoned>>

\* mutant: a non-success response is retried whenever budget remains
RetryHttpAnyFailure(error, r) == r > 0

\* the retry test of line 195, on the error parseApiError returned
RetryHttp(error, r) == error.retryable /\ r > 0

\* mutant: the budget test is dropped
RetryCaughtNoBudget(error, r) == error.retryable

\* the retry test of line 209, on a caught OpenAIError
RetryCaught(error, r) == error.retryable /\ r > 0

\* mutant: a thrown error is never retried
RetryNetworkNever(r) == FALSE

\* the retry test of line 224, on any other caught error
RetryNetwork(r) == r > 0

\* an attempt ended in `error`: back off and retry, or propagate through
\* callOpenAiApiStream's catch block to GET
\* mutant: delay(RETRY_DELAY) is awaited before the error is thrown as well
FailedDelayAlways(error, retry) ==
    /\ lastError' = error
    /\ delays' = delays + 1
    /\ IF retry
       THEN /\ pc' = "delay"
            /\ UNCHANGED <<genResponse, routeResponse>>
       ELSE /\ genResponse' = ErrorResponse(error)
            /\ routeResponse' = RouteFallback(ErrorResponse(error))
            /\ pc' = "done"

Failed(error, retry) ==
    /\ lastError' = error
    /\ IF retry
       THEN /\ delays' = delays + 1
            /\ pc' = "delay"
            /\ UNCHANGED <<genResponse, routeResponse>>
       ELSE /\ genResponse' = ErrorResponse(error)
            /\ routeResponse' = RouteFallback(ErrorResponse(error))
            /\ pc' = "done"
            /\ UNCHANGED delays

\* the retryability rule as the specification words it
SpecRetryable(status) == status >= 500 \/ status = 429 \/ status = 408

\* history: `status` is the HTTP status upstream answered the attempt with, 0 when
\* the attempt ended without an answer (timeout, network error); `errBody` is
\* the shape of the body of a non-success answer
Record(status, error, errBody) ==
    hist' = [errBody |-> errBody,
             all500 |-> hist.all500 /\ status = 500,
             retryableStatusOnly |-> hist.retryableStatusOnly
                                     /\ (Ok(status) \/ SpecRetryable(status)),
             nonRetryableAt |-> IF hist.nonRetryableAt = 0 /\ error # NoError
                                   /\ ~error.retryable
                                THEN attempts ELSE hist.nonRetryableAt]

\* fetch settles first with a non-success response: lines 168-170, 191-214.
\* The error thrown at line 201 is caught at line 205.
FetchResolveError ==
    /\ pc = "awaitFetch"
    /\ timer = "armed"
    /\ \E status \in Statuses, errBody \in ErrorBodies :
          /\ ~Ok(status)
          /\ LET error == parseApiError(status, errBody)
             IN  /\ Failed(error, RetryHttp(error, retries) \/ RetryCaught(error, retries))
                 /\ Record(status, error, errBody)
    /\ timer' = "cleared"
    /\ inflight' = inflight - 1
    /\ elapsed' = elapsed + FetchLatency
    /\ UNCHANGED <<apiKey, retries, attempts, sent, streamVars, abandoned>>

\* fetch settles first by rejecting: lines 172-175, 215-231
FetchReject ==
    /\ pc = "awaitFetch"
    /\ timer = "armed"
    /\ Failed(NetworkError(retries), RetryNetwork(retries))
    /\ Record(0, NetworkError(retries), "none")
    /\ timer' = "cleared"
    /\ inflight' = inflight - 1
    /\ elapsed' = elapsed + FetchLatency
    /\ UNCHANGED <<apiKey, retries, attempts, sent, streamVars, abandoned>>

\* the timer fires first: lines 163-165, 207-214.  The request is not aborted.
TimerFire ==
    /\ pc = "awaitFetch"
    /\ timer = "armed"
    /\ Failed(TimeoutError, RetryCaught(TimeoutError, retries))
    /\ Record(0, TimeoutError, "none")
    /\ timer' = "fired"
    /\ elapsed' = elapsed + REQUEST_TIMEOUT
    /\ UNCHANGED <<apiKey, retries, attempts, inflight, sent, streamVars, abandoned>>

\* mutant: the late rejection reaches the catch block of fetchWithRetry again
LateSettleDelivered ==
    /\ inflight > (IF pc = "awaitFetch" THEN 1 ELSE 0)
    /\ inflight' = inflight - 1
    /\ Failed(NetworkError(retries), RetryNetwork(retries))
    /\ UNCHANGED <<apiKey, retries, attempts, timer, sent, hist, streamVars, elapsed,
                   abandoned>>

\* a request whose attempt timed out settles later: clearTimeout, resolve and
\* reject have no effect any more
LateSettle ==
    /\ inflight > (IF pc = "awaitFetch" THEN 1 ELSE 0)
    /\ inflight' = inflight - 1
    /\ UNCHANGED <<apiKey, pc, retries, attempts, timer, delays, sent, lastError, hist,
                   genResponse, routeResponse, streamVars, elapsed, abandoned>>

\* mutant: the delay doubles with every retry
BackoffExponential(r) == RETRY_DELAY * 2 ^ (MAX_RETRIES - r)

\* the delay before the retry that follows an attempt made with budget r
Backoff(r) == RETRY_DELAY

\* delay(RETRY_DELAY) resolves: fetchWithRetry(url, options, retries - 1)
DelayElapsed ==
    /\ pc = "delay"
    /\ StartAttempt(retries - 1)
    /\ elapsed' = elapsed + Backoff(retries)
    /\ UNCHANGED <<apiKey, delays, lastError, hist, genResponse, routeResponse,
                   streamVars, abandoned>>

\* fetch settles first with a success response: fetchWithRetry returns it,
\* callOpenAiApiStream returns it, GET builds the ReadableStream (start runs)
\* and returns the NextResponse
FetchResolveOk ==
    /\ pc = "awaitFetch"
    /\ timer = "armed"
    /\ \E status \in Statuses, bytes \in Streams, hasBody \in BOOLEAN :
          /\ Ok(status)
          /\ genResponse' = Response(status, NoDoc)
          /\ Record(status, NoError, "none")
          /\ upstream' = IF hasBody THEN bytes ELSE <<>>
          /\ body' = upstream'
          /\ controller' = IF hasBody THEN "open" ELSE "closed"
          /\ pc' = IF hasBody THEN "reading" ELSE "done"
    /\ timer' = "cleared"
    /\ inflight' = inflight - 1
    /\ routeResponse' = RouteStream
    /\ lastError' = NoError
    /\ elapsed' = elapsed + FetchLatency
    /\ UNCHANGED <<apiKey, retries, attempts, delays, sent, htmlContent, emitted, sawDone,
                   abandoned>>

retryVars == <<apiKey, retries, attempts, inflight, timer, delays, sent, lastError, hist,
               genResponse, routeResponse, elapsed>>

\* some line of the chunk carries the [DONE] payload: line 62
HasDoneLine(chunk) ==
    LET lines == Split(chunk, <<>>)
    IN  \E i \in 1..Len(lines) : lines[i] = DataPrefix \o DoneData

\* controller.enqueue and controller.close throw a TypeError once the runtime
\* has cancelled the stream of a client that went away; whether and when it
\* cancels is not decided by this code.  A close that throws is caught at
\* line 81 and answered with controller.error.
StreamCancelled == IF abandoned THEN BOOLEAN ELSE {FALSE}

\* reader.read() resolves with a chunk: lines 55-79.  When enqueue throws,
\* line 71 has run for that delta and the catch of line 75 swallows the
\* TypeError: the text accumulates, nothing is delivered, the loop goes on.
ReadChunk ==
    /\ pc = "reading"
    /\ body # <<>>
    /\ \E n \in 1..Len(body), thrown \in StreamCancelled :
          LET out == Decode(SubSeq(body, 1, n))
          IN  /\ body' = Slice(body, n)
              /\ sawDone' = (sawDone \/ HasDoneLine(SubSeq(body, 1, n)))
              /\ htmlContent' = htmlContent \o Concat(out)
              /\ emitted' = IF thrown THEN emitted ELSE emitted \o out
    /\ UNCHANGED <<pc, upstream, controller, retryVars, abandoned>>

\* mutant: the loop is not left after controller.close()
ReadDoneNoBreak ==
    /\ pc = "reading"
    /\ body = <<>>
    /\ emitted' = IF Remaining(htmlContent) # <<>>
                  THEN Append(emitted, Remaining(htmlContent)) ELSE emitted
    /\ controller' = "closed"
    /\ UNCHANGED <<pc, body, upstream, htmlContent, sawDone, retryVars, abandoned>>

\* reader.read() resolves with done: lines 41-53
ReadDone ==
    /\ pc = "reading"
    /\ body = <<>>
    /\ \E thrown \in StreamCancelled :
          IF thrown
          THEN /\ controller' = "errored"
               /\ emitted' = emitted
          ELSE /\ controller' = "closed"
               /\ emitted' = IF Remaining(htmlContent) # <<>>
                             THEN Append(emitted, Remaining(htmlContent)) ELSE emitted
    /\ pc' = "done"
    /\ UNCHANGED <<body, upstream, htmlContent, sawDone, retryVars, abandoned>>

\* mutant: the read failure is handed to the catch block of GET
ReadErrorFallback ==
    /\ pc = "reading"
    /\ controller' = "errored"
    /\ pc' = "done"
    /\ routeResponse' = RouteFallback(genResponse)
    /\ UNCHANGED <<body, upstream, htmlContent, emitted, apiKey, retries, attempts,
                   inflight, timer, delays, sent, lastError, hist, genResponse, sawDone,
                   elapsed, abandoned>>

\* reader.read() rejects: lines 81-84
ReadError ==
    /\ pc = "reading"
    /\ controller' = "errored"
    /\ pc' = "done"
    /\ UNCHANGED <<body, upstream, htmlContent, emitted, sawDone, retryVars, abandoned>>

\* the client goes away (disconnect): GET passes no signal to fetch and the
\* stream has no cancel callback, so no code runs
Abandon ==
    /\ pc \in {"awaitFetch", "delay", "reading"}
    /\ ~abandoned
    /\ abandoned' = TRUE
    /\ UNCHANGED <<streamVars, retryVars, pc>>

Next ==
    \/ Generate
    \/ FetchResolveOk
    \/ FetchResolveError
    \/ FetchReject
    \/ TimerFire
    \/ LateSettle
    \/ DelayElapsed
    \/ ReadChunk
    \/ ReadDone
    \/ ReadError

Spec == Init /\ [][Next]_vars

\* sessions whose client may go away
NextOrAbandon ==
    \/ Next
    \/ Abandon

CancelSpec == Init /\ [][NextOrAbandon]_vars

\* the timers make every awaited transport step end: setTimeout of
\* fetchWithTimeout and of delay
FairSpec ==
    /\ Spec
    /\ WF_vars(Generate)
    /\ WF_vars(DelayElapsed)
    /\ WF_vars(FetchResolveOk \/ FetchResolveError \/ FetchReject \/ TimerFire)

-----------------------------------------------------------------------------
(* Properties *)

RECURSIVE IsSubseq(_, _)
IsSubseq(a, b) ==
    IF a = <<>> THEN TRUE
    ELSE IF b = <<>> THEN FALSE
    ELSE IF Head(a) = Head(b) THEN IsSubseq(Tail(a), Tail(b))
    ELSE IsSubseq(a, Tail(b))

\* the deltas of the upstream body, decoded line by line whatever the chunking
UpstreamDeltas == Decode(upstream)

\* an HTTP response was classified last (not a timeout, not a thrown error)
HttpFailure == lastError.errorType \in {"upstream_type", "api_error", "unknown"}

\* C1: one call of fetchWithRetry with the default budget makes at most
\* MAX_RETRIES + 1 = 4 transport attempts, whatever upstream answers.
C1_AtMostFourAttempts == attempts <= MAX_RETRIES + 1 /\ Len(sent) = attempts

C1_Witness == attempts = MAX_RETRIES + 1 /\ pc = "done"

\* C2: the failure classified from a non-success HTTP response is retryable
\* exactly when its status is >= 500, 429 or 408, whatever the body holds.
C2_RetryableByStatusAlone ==
    HttpFailure => (lastError.retryable <=> SpecRetryable(lastError.statusCode))

\* C3: whatever the chunking of the upstream bytes, the deltas the relay has
\* emitted when it closes are those of the complete lines: a line split
\* across two chunks yields its delta exactly once.
C3_ChunkingIndependent == controller = "closed" => emitted = UpstreamDeltas

\* C4: at most one outbound request of the session is outstanding at any time.
C4_OneRequestInFlight == inflight <= 1

\* C5: the chunks written to the client are a subsequence of the upstream
\* deltas, in upstream order: nothing is written twice, nothing is reordered.
C5_EmittedSubsequence == IsSubseq(emitted, UpstreamDeltas)

C5_Witness ==
    /\ controller = "closed"
    /\ Len(emitted) = 2
    /\ emitted[1] # emitted[2]

\* C6: when every failed attempt was answered with a retryable status, the
\* coordinator gives up only after MAX_RETRIES + 1 attempts, every retry follows
\* one delay and repeats the first request, and on success the client receives
\* exactly the concatenated deltas of the successful body.
C6_RetryThenStream ==
    hist.retryableStatusOnly =>
        /\ (routeResponse.kind = "fallback" /\ attempts > 0 => attempts = MAX_RETRIES + 1)
        /\ (attempts > 0 /\ pc # "delay" => delays = attempts - 1)
        /\ \A i \in 1..Len(sent) : sent[i] = sent[1]
        /\ (pc = "done" /\ routeResponse.kind = "stream" =>
               /\ attempts = delays + 1
               /\ (controller = "closed" => Concat(emitted) = Concat(UpstreamDeltas)))

C7_Fallback500 ==
    pc = "done" /\ attempts > 0 /\ hist.all500 =>
        /\ routeResponse.kind = "fallback"
        /\ routeResponse.status = 500
        /\ lastError.statusCode = 500
        /\ routeResponse.details.doc.errorMessage = lastError.message
        /\ emitted = <<>>
        /\ controller = "none"

\* C7: when upstream answers every attempt with HTTP 500 the session ends,
\* no delta is forwarded, and the client receives the fallback document with
\* status 500 that embeds the classified message.
C7_All500EndsInFallback == []C7_Fallback500 /\ <>(pc = "done" \/ ~hist.all500)

C7_Witness == pc = "done" /\ hist.all500 /\ attempts = MAX_RETRIES + 1

\* the status a failure is classified with; a failure without an HTTP status
\* is reported as 500
ClassifiedStatus(error) == IF error.statusCode = 0 THEN 500 ELSE error.statusCode

\* C8: after a failure before any byte was forwarded, the client receives the
\* fallback document with the classified status code of that failure.
C8_FallbackHasClassifiedStatus ==
    pc = "done" /\ lastError # NoError =>
        /\ routeResponse.kind = "fallback"
        /\ routeResponse.status = ClassifiedStatus(lastError)

\* C9: without an API key the session ends in an error document with status
\* 500 and fetch is never called.
C9_MissingKeyNoTransport ==
    apiKey # "set" /\ pc # "idle" =>
        /\ pc = "done"
        /\ genResponse.status = 500
        /\ routeResponse.kind = "fallback"
        /\ routeResponse.status = 500
        /\ attempts = 0
        /\ inflight = 0
        /\ sent = <<>>

C9_Witness == apiKey = "empty" /\ pc = "done" /\ routeResponse.status = 500

\* C10: once an attempt ended in a failure classified not retryable, no
\* further attempt is made and that failure is the one propagated, even with
\* retry budget left.
C10_NonRetryableNotRetried ==
    hist.nonRetryableAt # 0 =>
        /\ attempts = hist.nonRetryableAt
        /\ pc = "done"
        /\ ~lastError.retryable
        /\ genResponse.doc.errorMessage = lastError.message
        /\ routeResponse.kind = "fallback"

C10_Witness == hist.nonRetryableAt = 1 /\ retries = MAX_RETRIES /\ pc = "done"

C11_OneOutcome ==
    /\ (timer = "armed") <=> (pc = "awaitFetch")
    /\ timer = "fired" => lastError = TimeoutError /\ lastError.retryable
    /\ timer = "cleared" => lastError.errorType # "timeout"
    /\ attempts > 0 => attempts = delays + (IF pc = "delay" THEN 0 ELSE 1)

C11_Step ==
    /\ timer = "cleared" => timer' # "fired"
    /\ timer = "fired" => timer' # "cleared"
    /\ inflight' < inflight /\ timer' = timer =>
          UNCHANGED <<pc, retries, attempts, delays, lastError, genResponse,
                      routeResponse, streamVars>>

\* C11: every fetchWithTimeout call has exactly one outcome: when the timer
\* fires first the call fails with the retryable timeout error and the
\* request settling later changes nothing; when the request settles first the
\* timer is cleared and no timeout failure is produced.
C11_ExactlyOneOutcome == []C11_OneOutcome /\ [][C11_Step]_vars

C11_Witness == timer = "fired" /\ inflight = 0 /\ lastError = TimeoutError

\* the chunk a read step consumed
ChunkRead == SubSeq(body, 1, Len(body) - Len(body'))

\* a read step of the loop: reader.read() gave a chunk
ReadStep == pc = "reading" /\ body' # body

\* the delta of a well-formed delta line, nothing for any other line
WellFormedDelta(line) ==
    IF /\ Len(line) > 8
       /\ SubSeq(line, 1, 6) = DataPrefix
       /\ line[7] = "{"
       /\ line[Len(line)] = "}"
       /\ SubSeq(line, 8, Len(line) - 1) \in Contents
    THEN <<SubSeq(line, 8, Len(line) - 1)>>
    ELSE <<>>

RECURSIVE WellFormedDeltas(_)
WellFormedDeltas(lines) ==
    IF lines = <<>> THEN <<>>
    ELSE WellFormedDelta(Head(lines)) \o WellFormedDeltas(Tail(lines))

BadLine == DataPrefix \o <<"x">>

\* C12: a data line whose payload is not JSON yields nothing and stops
\* nothing: each chunk read yields the delta of every well-formed data line in
\* it, before or after a malformed one, and the stream stays open.
C12_MalformedLineSkipped ==
    [][ReadStep =>
          /\ emitted' = emitted \o WellFormedDeltas(Split(ChunkRead, <<>>))
          /\ controller' = "open"
          /\ pc' = "reading"]_vars

C12_Witness ==
    /\ upstream = Join(<<BadLine, DeltaLine(<<"A">>)>>)
    /\ emitted = <<<<"A">>>>
    /\ controller = "closed"

C14_Errored ==
    /\ controller = "errored" => pc = "done" /\ routeResponse = RouteStream
    /\ ~(routeResponse.kind = "fallback" /\ (emitted # <<>> \/ controller # "none"))

C14_AfterError ==
    /\ pc = "reading" /\ pc' = "done" /\ body # <<>> => controller' = "errored"
    /\ controller = "errored" =>
          UNCHANGED <<attempts, sent, emitted, controller, routeResponse, genResponse, pc>>

\* the lines of a chunk that come before its first [DONE] line
RECURSIVE UntilDone(_)
UntilDone(lines) ==
    IF lines = <<>> \/ Head(lines) = DataPrefix \o DoneData THEN <<>>
    ELSE <<Head(lines)>> \o UntilDone(Tail(lines))

\* what C13 asks of one step
C13_Step ==
    ReadStep =>
        emitted' = emitted \o (IF sawDone THEN <<>>
                               ELSE WellFormedDeltas(UntilDone(Split(ChunkRead, <<>>))))

\* C13: the payload [DONE] is the end-of-stream sentinel: it produces no delta
\* itself, and once the decoder has seen it no further delta is emitted to the
\* caller: a read step emits the deltas of the lines before the first [DONE]
\* line and nothing once a [DONE] line has been seen.
C13_NoDeltaAfterDone == [][C13_Step]_vars

\* C14: a failure while reading the upstream body puts the stream into the
\* errored state; from then on no attempt is made, nothing is enqueued again
\* and no fallback document is produced; no session both forwards bytes and
\* returns a fallback document.
C14_MidStreamError == []C14_Errored /\ [][C14_AfterError]_vars

C14_Witness == controller = "errored" /\ emitted # <<>> /\ body # <<>>

Terminal == {"closed", "errored"}

C15_States ==
    /\ controller \in {"none", "open"} \cup Terminal
    /\ controller \in Terminal => pc = "done"
    /\ controller = "open" <=> pc = "reading"

C15_Absorbing ==
    controller \in Terminal => UNCHANGED <<controller, emitted, body, htmlContent, pc>>

\* C15: the relay stream ends closed (upstream finished, or no reader) or
\* errored, and both are absorbing: the stream is never open again, nothing
\* more is enqueued or read, and the other terminal state is never entered.
C15_TwoAbsorbingTerminals == []C15_States /\ [][C15_Absorbing]_vars

C15_Witness ==
    /\ controller = "closed"
    /\ routeResponse = RouteStream
    /\ upstream = <<>>
    /\ inflight > 0

\* what C16 asks of one step taken after the client went away
C16_Step ==
    abandoned =>
        /\ attempts' = attempts
        /\ ReadStep => pc' # "reading"

\* C16: if the caller abandons the session at any point, also while attempts
\* are being retried or the backoff delay is pending, then afterwards no new
\* transport attempt is started and no further upstream read is issued.
C16_AbandonStopsWork == [][C16_Step]_vars

\* C17: a thrown transport error that is no timeout is classified
\* network_error and retried exactly when budget remains; with the budget
\* exhausted the propagated failure is a network_error that is not retryable
\* and the client gets a fallback document with status 500.
C17_NetworkErrorRetriedWithinBudget ==
    lastError.errorType = "network_error" =>
        /\ lastError.statusCode = 0
        /\ lastError.message = <<"network", 0>>
        /\ pc = "done" <=> ~lastError.retryable
        /\ pc = "done" =>
              /\ retries = 0
              /\ attempts = MAX_RETRIES + 1
              /\ genResponse.status = 500
              /\ genResponse.doc.errorMessage = lastError.message
              /\ routeResponse = RouteFallback(genResponse)
              /\ routeResponse.status = 500
        /\ pc # "done" =>
              /\ pc \in {"delay", "awaitFetch"}
              /\ delays = attempts - (IF pc = "delay" THEN 0 ELSE 1)
              /\ retries > 0 \/ pc = "awaitFetch"

C17_Witness ==
    /\ lastError.errorType = "network_error"
    /\ pc = "done"
    /\ attempts = MAX_RETRIES + 1

\* the four kinds the claim names
FourKinds == {"timeout", "network_error", "api_error", "unknown"}

\* a failure of the last attempt that came from a non-success response
ClassifiedResponse == lastError # NoError /\ hist.errBody # "none"

\* the message and kind of a response whose body gave no `error`
DefaultsKept ==
    /\ lastError.errorType = "unknown"
    /\ lastError.message = <<"HTTP", lastError.statusCode>>

C21_Counts ==
    /\ pc = "delay" => delays = attempts /\ retries > 0 /\ lastError.retryable
    /\ pc \in {"awaitFetch", "reading", "done"} /\ attempts > 0 => delays = attempts - 1
    /\ attempts = 0 => delays = 0

\* when a delay begins, and when an attempt starts
C21_Step ==
    /\ delays' # delays =>
          /\ delays' = delays + 1
          /\ pc = "awaitFetch" /\ pc' = "delay"
          /\ attempts' = attempts
          /\ retries > 0 /\ lastError'.retryable
    /\ attempts' # attempts =>
          /\ attempts' = attempts + 1
          /\ delays' = delays
          /\ attempts > 0 => pc = "delay" /\ elapsed' = elapsed + RETRY_DELAY
    /\ pc = "awaitFetch" /\ pc' \in {"reading", "done"} => delays' = delays
    /\ pc \in {"reading", "done"} => delays' = delays /\ attempts' = attempts

\* C21: in fetchWithRetry the fixed delay happens exactly once between two
\* consecutive attempts and at no other time: no attempt starts before the
\* delay after the previous failure has elapsed, and no delay is taken after
\* the last attempt, after a non-retryable failure or after a success, so the
\* number of delays is the number of attempts minus one.
C21_OneDelayBetweenAttempts == []C21_Counts /\ [][C21_Step]_vars

C21_Witness ==
    /\ controller = "closed"
    /\ attempts = MAX_RETRIES
    /\ delays = MAX_RETRIES - 1
    /\ elapsed >= delays * RETRY_DELAY
====
